---- MODULE Spec2Model ----
(***************************************************************************)
(* Model of ComponentSystem (src/artifacts/generic-type/v1/factory.ts):    *)
(* the registry of reactives, the plugin hook pipeline, the middleware     *)
(* pipeline, the update path with history, the propagation walk, batch and *)
(* the subscriber table.                                                   *)
(*                                                                         *)
(* Asynchronous calls are frames on a call stack.  Each action runs one    *)
(* piece of code between two suspension points (an await); a nested        *)
(* awaited call pushes a frame, and its completion resumes the caller.     *)
(* The operations of a batch are calls in progress side by side: one runs, *)
(* the others are parked at their suspension points.                       *)
(***************************************************************************)
EXTENDS Integers, Sequences, FiniteSets, TLC

(***************************************************************************)
(* Bounds of the model.                                                    *)
(***************************************************************************)
MaxVal == 1          \* values are 0..MaxVal
MaxGen == 1          \* handles ever created under one id
MaxHandles == 1      \* handles ever created
MaxCalls == 1        \* caller-requested set calls
MaxEdges == 1        \* dependents edges wired into the graph
MaxRemoved == 1      \* handles out of the registry
MaxDepth == 2        \* set calls nested in one another
HistorySize == 2     \* options.historySize handed to the constructor
MaxSubs == 2         \* subscribe calls

\* How far the callers of one run go.  Narrow is the run the bounds describe;
\* Wide adds the room a graph of three reactives needs.  In a Batched run the
\* callers mutate three times, one call after the other or two of them in one
\* batch; in a Subscribed run they use the subscriber table.
Limits(gen, handles, calls, edges, removed, depth, batch, subs) ==
    [gen |-> gen, handles |-> handles, calls |-> calls, edges |-> edges,
     removed |-> removed, depth |-> depth, batch |-> batch, subs |-> subs]
Narrow == Limits(MaxGen, MaxHandles, MaxCalls, MaxEdges, MaxRemoved, MaxDepth, FALSE, 0)
Wide == Limits(MaxGen + 1, MaxHandles + 2, MaxCalls, MaxEdges + 1, MaxRemoved,
               MaxDepth + 1, FALSE, 0)
Batched == Limits(MaxGen, MaxHandles, MaxCalls + 2, MaxEdges, 0, MaxDepth, TRUE, 0)
Subscribed == Limits(MaxGen, MaxHandles, MaxCalls, 0, MaxRemoved, MaxDepth, FALSE, MaxSubs)

Values == 0 .. MaxVal
NumVals == MaxVal + 1

\* ids a caller passes in config.id, and ids crypto.randomUUID() can return
GivenIds == {"a", "b"}
Uuids == {"u1"}
Ids == GivenIds \cup Uuids
NoId == ""

\* a handle is the Reactive object: the g-th one created under an id
Handles == Ids \X (1 .. Wide.gen)

\* the functions callers pass to subscribe
Callbacks == {"f", "g"}

(***************************************************************************)
(* Values threaded through hooks: a value, a ReactiveConfig, a Reactive,   *)
(* or the undefined a void hook returns.                                   *)
(***************************************************************************)
V(x) == [value |-> x]
C(c) == [config |-> c]
R(h) == [reactive |-> h]
Undefined == [undefined |-> TRUE]

IsValue(w) == DOMAIN w = {"value"}
IsConfig(w) == DOMAIN w = {"config"}

Inc(x) == (x + 1) % NumVals
Dbl(x) == (2 * x) % NumVals

(***************************************************************************)
(* What a hook or a middleware handler does when called.  "none" is an     *)
(* absent hook.  "rejectTop" is the validation of the example system: it   *)
(* throws on one designated value and returns every other unchanged.       *)
(***************************************************************************)
Throws(b, w) ==
    \/ b = "throw"
    \/ b = "rejectTop" /\ IsValue(w) /\ w.value = MaxVal
    \/ b = "rejectTop" /\ IsConfig(w) /\ w.config.initialValue = MaxVal

Transform(b, x) ==
    CASE b = "inc" -> Inc(x)
      [] b = "dbl" -> Dbl(x)
      [] OTHER -> x

Returns(b, w) ==
    IF b = "ok" THEN Undefined
    ELSE IF IsValue(w) THEN V(Transform(b, w.value))
    ELSE IF IsConfig(w)
         THEN C([w.config EXCEPT !.initialValue = Transform(b, @)])
    ELSE w

(***************************************************************************)
(* Plugins and middleware handed to the constructor.                       *)
(***************************************************************************)
Plugin(n, bc, ac, bu, au, bd, he) ==
    [name |-> n, beforeCreate |-> bc, afterCreate |-> ac, beforeUpdate |-> bu,
     afterUpdate |-> au, beforeDestroy |-> bd, handleError |-> he]

LoggerPlugin == Plugin("logger", "id", "ok", "none", "none", "none", "ok")
PersistencePlugin == Plugin("persistence", "none", "none", "none", "ok", "none", "none")
IncPlugin == Plugin("inc", "inc", "none", "inc", "ok", "ok", "ok")
DblPlugin == Plugin("dbl", "dbl", "ok", "dbl", "none", "ok", "none")
GuardPlugin == Plugin("guard", "rejectTop", "none", "rejectTop", "none", "throw", "throw")
AuditPlugin == Plugin("audit", "none", "throw", "none", "rejectTop", "none", "ok")
\* a second plugin under the name of DblPlugin
ShadowPlugin == Plugin("dbl", "inc", "none", "inc", "none", "none", "none")

Middleware(n, b, a, e) == [name |-> n, before |-> b, after |-> a, error |-> e]

ValidationMiddleware == Middleware("validation", "rejectTop", "none", "none")
IncMiddleware == Middleware("inc", "inc", "none", "ok")
DblMiddleware == Middleware("dbl", "dbl", "id", "none")
AfterMiddleware == Middleware("after", "none", "rejectTop", "ok")

Options(h, b) == [enableHistory |-> h, historySize |-> HistorySize, batchUpdates |-> b]
System(p, m, o) == [plugins |-> p, middleware |-> m, options |-> o]

\* the SystemConfig values the constructor is called with
SystemConfigs ==
    { System(<<>>, <<>>, Options(TRUE, TRUE)),
      System(<<LoggerPlugin, PersistencePlugin>>, <<ValidationMiddleware>>,
             Options(TRUE, TRUE)),
      System(<<IncPlugin, DblPlugin>>, <<IncMiddleware, ValidationMiddleware>>,
             Options(TRUE, FALSE)),
      System(<<DblPlugin, LoggerPlugin, IncPlugin>>, <<DblMiddleware, AfterMiddleware>>,
             Options(FALSE, FALSE)),
      System(<<GuardPlugin, LoggerPlugin>>, <<IncMiddleware>>,
             Options(TRUE, TRUE)),
      System(<<AuditPlugin, DblPlugin>>, <<>>, Options(TRUE, FALSE)) }

\* a constructor called with two plugins of one name
Shadowed == System(<<DblPlugin, LoggerPlugin, ShadowPlugin>>, <<>>, Options(TRUE, FALSE))

\* a Map that keeps the first plugin set under a name
RECURSIVE initializePluginsKeepFirst(_, _)
initializePluginsKeepFirst(list, map) ==
    IF list = <<>> THEN map
    ELSE LET p == Head(list)
             at == {k \in 1 .. Len(map) : map[k].name = p.name}
         IN  initializePluginsKeepFirst(Tail(list),
                 IF at = {} THEN Append(map, p) ELSE map)

\* initializePlugins: the plugins Map keeps one entry per name, at the place
\* of the name's first occurrence, holding the last plugin set under it
RECURSIVE initializePlugins(_, _)
initializePlugins(list, map) ==
    IF list = <<>> THEN map
    ELSE LET p == Head(list)
             at == {k \in 1 .. Len(map) : map[k].name = p.name}
         IN  initializePlugins(Tail(list),
                 IF at = {} THEN Append(map, p)
                 ELSE [map EXCEPT ![CHOOSE k \in at : TRUE] = p])

VARIABLES
    plugins,        \* this.plugins, in Map iteration order
    initialized,    \* the plugins initialize was called on, in call order
    middleware,     \* this.middleware
    options,        \* this.options
    reactives,      \* this.reactives: id -> generation of the handle, 0 when absent
    heap,           \* the Reactive objects ever built, by handle
    history,        \* this.history: a function on the ids that have a log
    batchQueue,     \* this.batchQueue: a function on the ids that have an entry
    subscriptions,  \* this.subscriptions: a function on the ids with a set
    stack,          \* the awaited calls in progress, innermost last
    parked,         \* the stacks of the calls suspended beside the running one
    batchCall,      \* the batch call in progress or settled last
    capabilities,   \* the unsubscribe closures subscribe has returned
    invoked,        \* the subscriber callbacks the engine has called, in order
    destroying,     \* beforeDestroy chains removeReactive left running
    last,           \* how the latest caller-requested call ended
    calls,          \* caller-requested set calls so far
    recommits,      \* per id, propagated set calls since the latest caller's set
    limits,         \* how far the callers go in this run
    conf,           \* the signal's config in the alternative's component factory
    signal,         \* the signal's value
    subscribers,    \* the alternative's subscribers: a function on the keys with a set
    awaiting,       \* the alternative's setter calls suspended at their await
    disposers,      \* the closures the alternative's subscribe has returned
    settledCall,    \* how the latest setter call of the alternative went
    setterCalls     \* setter calls of the alternative so far

vars == <<plugins, initialized, middleware, options, reactives, heap, history, batchQueue,
          subscriptions, stack, parked, batchCall, capabilities, invoked,
          destroying, last, calls, recommits, limits,
          conf, signal, subscribers, awaiting, disposers, settledCall, setterCalls>>

NoHandle == [absent |-> TRUE]
NoError == [none |-> TRUE]
Error(stage, by, on) == [stage |-> stage, by |-> by, on |-> on]
EmptyMap == [k \in {} |-> 0]
NoBatch == [phase |-> "none"]

Allocated(h) == heap[h] # NoHandle
getReactive(id) == IF reactives[id] = 0 THEN NoHandle ELSE heap[<<id, reactives[id]>>]
RefOf(id) == <<id, reactives[id]>>
NextGen(id) == Cardinality({h \in Handles : h[1] = id /\ Allocated(h)}) + 1
Created == Cardinality({h \in Handles : Allocated(h)})
Edges ==
    Cardinality({e \in Handles \X Ids :
                   /\ Allocated(e[1])
                   /\ \E k \in 1 .. Len(heap[e[1]].dependents) :
                        heap[e[1]].dependents[k] = e[2]})

Constructor(config) ==
    /\ plugins = initializePlugins(config.plugins, <<>>)
    /\ initialized = config.plugins
    /\ middleware = config.middleware
    /\ options = config.options
    /\ reactives = [id \in Ids |-> 0]
    /\ heap = [h \in Handles |-> NoHandle]
    /\ history = EmptyMap
    /\ batchQueue = EmptyMap
    /\ subscriptions = EmptyMap
    /\ stack = <<>>
    /\ parked = <<>>
    /\ batchCall = NoBatch
    /\ capabilities = {}
    /\ invoked = <<>>
    /\ destroying = <<>>
    /\ last = [op |-> "none"]
    /\ calls = 0
    /\ recommits = [id \in Ids |-> 0]

Constructed == \E config \in SystemConfigs : Constructor(config)

\* createComponentFactory has not been called: the run uses the ComponentSystem
NoFactory ==
    /\ conf = [type |-> "none"]
    /\ signal = 0
    /\ subscribers = EmptyMap
    /\ awaiting = <<>>
    /\ disposers = {}
    /\ settledCall = [outcome |-> "none"]
    /\ setterCalls = 0

Init ==
    /\ NoFactory
    /\ \/ Constructed /\ limits \in {Narrow, Batched, Subscribed}
       \/ Constructor(Shadowed) /\ limits = Narrow
InitWide ==
    /\ NoFactory
    /\ \/ Constructed /\ limits \in {Wide, Batched, Subscribed}
       \/ Constructor(Shadowed) /\ limits = Narrow

(***************************************************************************)
(* The call stack.                                                         *)
(***************************************************************************)
Top == stack[Len(stack)]
Running(op, pc) == stack # <<>> /\ Top.op = op /\ Top.pc = pc
Open == batchCall.phase \in {"ops", "flush"}
Idle == stack = <<>> /\ parked = <<>> /\ ~Open
WithTop(f) == [stack EXCEPT ![Len(stack)] = f]
Snapshot(h) ==
    [value |-> heap[h].value, updateCount |-> heap[h].updateCount,
     log |-> IF h[1] \in DOMAIN history THEN history[h[1]] ELSE <<>>]

CreateFrame(cfg) ==
    [op |-> "create", pc |-> "beforeCreate", i |-> 1, res |-> C(cfg),
     start |-> C(cfg), trace |-> <<>>, h |-> <<NoId, 0>>, replaced |-> <<NoId, 0>>,
     arg |-> cfg, pre |-> reactives, handled |-> <<>>]

SetFrame(h, v, propagated) ==
    [op |-> "set", pc |-> "before", i |-> 1, res |-> V(v), start |-> V(v),
     trace |-> <<>>, h |-> h, arg |-> v, old |-> Undefined, new |-> Undefined,
     queue |-> <<>>, visited |-> {}, cur |-> <<NoId, 0>>,
     err |-> NoError, cause |-> NoError, failedAt |-> "", handled |-> <<>>,
     skipped |-> {}, pre |-> Snapshot(h), hooked |-> FALSE, committed |-> FALSE,
     prior |-> Undefined, appended |-> FALSE, propagated |-> propagated]

(***************************************************************************)
(* runPluginHook and runMiddleware: one loop iteration that calls a        *)
(* handler.  Plugins and middleware without the handler are passed over    *)
(* inside the same iteration, as the loops do not suspend on them.         *)
(***************************************************************************)
Implementers(list, hook, i) ==
    {j \in i .. Len(list) : list[j][hook] # "none"}
\* a loop that goes to the last handler first
LastHandler(list, hook, i) ==
    IF Implementers(list, hook, i) = {} THEN 0
    ELSE CHOOSE j \in Implementers(list, hook, i) :
            \A k \in Implementers(list, hook, i) : j >= k

NextHandler(list, hook, i) ==
    IF Implementers(list, hook, i) = {} THEN 0
    ELSE CHOOSE j \in Implementers(list, hook, i) :
            \A k \in Implementers(list, hook, i) : j <= k

\* a pipeline that hands every handler the value the pipeline started with
HookInputUnthreaded(f) == f.start

\* the argument the next handler is called with
HookInput(f) == f.res

\* frame f after handler j of the list returned
Called(f, list, hook, j) ==
    LET in == HookInput(f)
        out == Returns(list[j][hook], in)
    IN  [f EXCEPT !.res = out, !.i = j + 1,
                  !.trace = Append(@, [by |-> j, in |-> in, out |-> out])]

\* a pipeline starts: its value, first index and an empty trace
Begin(f, pc, w) == [f EXCEPT !.pc = pc, !.i = 1, !.res = w, !.start = w, !.trace = <<>>]

(***************************************************************************)
(* A call ends.  The frame is popped; the awaiting caller is resumed with  *)
(* the outcome.  Only notifyDependents awaits a nested set, and it has no  *)
(* handler of its own: a rejection goes to the catch of the set it runs in.*)
(***************************************************************************)
Resumed(parent, child, err) ==
    IF err = NoError
    THEN [parent EXCEPT !.pc = "notify",
                        !.queue = @ \o heap[child.h].dependents]
    ELSE [parent EXCEPT !.pc = "catch", !.err = err, !.cause = err,
                        !.failedAt = parent.pc]

Outcome(f, err) ==
    [op |-> f.op, h |-> f.h, res |-> IF err = NoError THEN "resolved" ELSE "rejected",
     err |-> err, frame |-> f]

\* Promise.all over the calls of an open batch: a call that resolved is one
\* less to wait for, the first that rejected is the failure of the whole
Settled(err) ==
    IF ~Open THEN batchCall
    ELSE IF err = NoError THEN [batchCall EXCEPT !.left = @ - 1]
    ELSE IF batchCall.failed THEN batchCall
    ELSE [batchCall EXCEPT !.failed = TRUE, !.err = err]

\* the stack and the caller's view after the top frame f ended with err
Return(f, err) ==
    IF Len(stack) = 1
    THEN /\ stack' = <<>>
         /\ last' = Outcome(f, err)
         /\ batchCall' = Settled(err)
    ELSE /\ stack' = [SubSeq(stack, 1, Len(stack) - 1)
                        EXCEPT ![Len(stack) - 1] = Resumed(@, f, err)]
         /\ UNCHANGED <<last, batchCall>>

Factory == <<conf, signal, subscribers, awaiting, disposers, settledCall, setterCalls>>
Engine == <<plugins, initialized, middleware, options, limits, Factory>>
Registry == <<reactives, heap, history, batchQueue, subscriptions>>
Tasks == <<parked, batchCall>>
Listeners == <<capabilities, invoked>>

(***************************************************************************)
(* create                                                                  *)
(***************************************************************************)
\* the ReactiveConfig values create is called with
InitialValues == {0, MaxVal}

Configs ==
    [id : {"a"}, type : {"state"}, initialValue : InitialValues, dependencies : {{}}]
    \cup [id : {"b"}, type : {"state", "readonly"}, initialValue : InitialValues,
          dependencies : {{"a"}}]
    \cup [id : {NoId}, type : {"state"}, initialValue : InitialValues,
          dependencies : {{"a", "b"}}]

\* the model has room for the handle the call will build
Room(cfg) ==
    /\ Created < limits.handles
    /\ cfg.id # NoId => NextGen(cfg.id) <= limits.gen
    /\ cfg.id = NoId => \E u \in Uuids : ~Allocated(<<u, 1>>)

\* the caller builds the graph before it mutates
Building == calls = 0

create(cfg) ==
    /\ Idle
    /\ Building
    /\ Room(cfg)
    /\ stack' = <<CreateFrame(cfg)>>
    /\ last' = [op |-> "none"]
    /\ UNCHANGED <<Engine, Tasks, Listeners, Registry, destroying, calls, recommits>>

beforeCreateHook ==
    /\ Running("create", "beforeCreate")
    /\ LET j == NextHandler(plugins, "beforeCreate", Top.i)
       IN  /\ j # 0
           /\ IF Throws(plugins[j].beforeCreate, HookInput(Top))
              THEN Return(Top, Error("beforeCreate", j, NoId))
              ELSE /\ stack' = WithTop(Called(Top, plugins, "beforeCreate", j))
                   /\ UNCHANGED <<last, batchCall>>
    /\ UNCHANGED <<Engine, parked, Listeners, Registry, destroying, calls, recommits>>

\* the Reactive object createReactive builds from the processed config
NewReactive(cfg, id) ==
    [id |-> id, value |-> cfg.initialValue, set |-> cfg.type # "readonly",
     type |-> cfg.type, created |-> NextGen(id), updateCount |-> 0,
     updated |-> FALSE, status |-> "idle", error |-> NoError, dependencies |-> cfg.dependencies, dependents |-> <<>>]

\* config.id || crypto.randomUUID(): a given id, or an id never handed out
IdsFor(cfg) ==
    IF cfg.id # NoId THEN {cfg.id}
    ELSE {u \in Uuids : ~Allocated(<<u, 1>>)}

\* a createReactive that hands its object back without an entry for it
registerNothing(h) == reactives

registerReactive(h) == [reactives EXCEPT ![h[1]] = h[2]]

createReactive ==
    /\ Running("create", "beforeCreate")
    /\ NextHandler(plugins, "beforeCreate", Top.i) = 0
    /\ LET cfg == Top.res.config
       IN  \E id \in IdsFor(cfg) :
             LET h == <<id, NextGen(id)>>
             IN  /\ h \in Handles
                 /\ heap' = [heap EXCEPT ![h] = NewReactive(cfg, id)]
                 /\ reactives' = registerReactive(h)
                 /\ stack' = WithTop([Begin(Top, "afterCreate", R(h))
                                         EXCEPT !.h = h, !.replaced = RefOf(id)])
    /\ UNCHANGED <<Engine, Tasks, Listeners, history, batchQueue, subscriptions, destroying, last,
                   calls, recommits>>

afterCreateHook ==
    /\ Running("create", "afterCreate")
    /\ LET j == NextHandler(plugins, "afterCreate", Top.i)
       IN  /\ j # 0
           /\ IF Throws(plugins[j].afterCreate, HookInput(Top))
              THEN Return(Top, Error("afterCreate", j, Top.h[1]))
              ELSE /\ stack' = WithTop(Called(Top, plugins, "afterCreate", j))
                   /\ UNCHANGED <<last, batchCall>>
    /\ UNCHANGED <<Engine, parked, Listeners, Registry, destroying, calls, recommits>>

createReturn ==
    /\ Running("create", "afterCreate")
    /\ NextHandler(plugins, "afterCreate", Top.i) = 0
    /\ Return(Top, NoError)
    /\ UNCHANGED <<Engine, parked, Listeners, Registry, destroying, calls, recommits>>

(***************************************************************************)
(* removeReactive.  runPluginHook("beforeDestroy") is called and not       *)
(* awaited: its first handler runs inside removeReactive, the rest of the  *)
(* chain after the deletion.                                               *)
(***************************************************************************)
Without(map, id) == [k \in DOMAIN map \ {id} |-> map[k]]

\* the chain left running after the handlers from i on were started for h
Chain(h, i) ==
    LET j == NextHandler(plugins, "beforeDestroy", i)
    IN  IF j = 0 \/ Throws(plugins[j].beforeDestroy, R(h))
           \/ NextHandler(plugins, "beforeDestroy", j + 1) = 0
        THEN <<>>
        ELSE <<[h |-> h, i |-> j + 1]>>

Stale == {h \in Handles : Allocated(h) /\ reactives[h[1]] # h[2]}

removeReactive(id) ==
    /\ Idle
    /\ Building
    /\ Cardinality(Stale) < limits.removed
    /\ reactives[id] # 0
    /\ destroying' = destroying \o Chain(RefOf(id), 1)
    /\ reactives' = [reactives EXCEPT ![id] = 0]
    /\ history' = Without(history, id)
    /\ subscriptions' = Without(subscriptions, id)
    /\ last' = [op |-> "removeReactive", id |-> id]
    /\ UNCHANGED <<Engine, Tasks, Listeners, heap, batchQueue, stack, calls, recommits>>

beforeDestroyHook ==
    /\ destroying # <<>>
    /\ \E k \in 1 .. Len(destroying) :
         /\ destroying' = SubSeq(destroying, 1, k - 1)
                           \o Chain(destroying[k].h, destroying[k].i)
                           \o SubSeq(destroying, k + 1, Len(destroying))
         /\ last' = [op |-> "beforeDestroy", h |-> destroying[k].h,
                     by |-> NextHandler(plugins, "beforeDestroy", destroying[k].i),
                     registered |-> RefOf(destroying[k].h[1]) = destroying[k].h]
    /\ UNCHANGED <<Engine, Tasks, Listeners, Registry, stack, calls, recommits>>

(***************************************************************************)
(* The dependents field of a Reactive is a public mutable Set: the engine  *)
(* never adds to it, a holder of the handle does.                          *)
(***************************************************************************)
Member(seq, x) == \E k \in 1 .. Len(seq) : seq[k] = x
Add(seq, x) == IF Member(seq, x) THEN seq ELSE Append(seq, x)

addDependent(h, d) ==
    /\ Idle
    /\ Building
    /\ Allocated(h)
    /\ reactives[d] # 0
    /\ ~Member(heap[h].dependents, d)
    /\ Edges < limits.edges
    /\ heap' = [heap EXCEPT ![h].dependents = Add(@, d)]
    /\ last' = [op |-> "none"]
    /\ UNCHANGED <<Engine, Tasks, Listeners, reactives, history, batchQueue, subscriptions, stack,
                   destroying, calls, recommits>>

(***************************************************************************)
(* reactive.set, the closure createReactive builds (lines 770-789).        *)
(***************************************************************************)
set(h, v) ==
    /\ Idle
    /\ calls < limits.calls
    /\ Allocated(h)
    /\ heap[h].set
    /\ stack' = <<SetFrame(h, v, FALSE)>>
    /\ calls' = calls + 1
    /\ recommits' = [id \in Ids |-> 0]
    /\ last' = [op |-> "none"]
    /\ UNCHANGED <<Engine, Tasks, Listeners, Registry, destroying>>

\* set is absent on a handle built with type "readonly" (line 769): the call
\* expression itself throws a TypeError, and no code of the engine runs
TypeError == [stage |-> "call", by |-> 0, on |-> NoId]

setAbsent(h, v) ==
    /\ Idle
    /\ Allocated(h)
    /\ ~heap[h].set
    /\ last' = [op |-> "set", h |-> h, res |-> "threw", err |-> TypeError]
    /\ UNCHANGED <<Engine, Tasks, Listeners, Registry, stack, destroying, calls, recommits>>

\* a failure that is noted while the try block goes on past the failed handler
CaughtInsideLoop(f, err) ==
    [f EXCEPT !.err = err, !.cause = err, !.failedAt = f.pc, !.i = @ + 1]

\* a failure raised inside the try block lands in its catch
Caught(f, err) ==
    [f EXCEPT !.pc = "catch", !.err = err, !.cause = err, !.failedAt = f.pc]

middlewareBefore ==
    /\ Running("set", "before")
    /\ LET j == NextHandler(middleware, "before", Top.i)
       IN  /\ j # 0
           /\ stack' = WithTop(
                IF Throws(middleware[j].before, HookInput(Top))
                THEN Caught(Top, Error("before", j, Top.h[1]))
                ELSE Called(Top, middleware, "before", j))
    /\ UNCHANGED <<Engine, Tasks, Listeners, Registry, destroying, last, calls, recommits>>

\* the head of updateReactiveValue, entered with the before pipeline's result
Batching == options.batchUpdates /\ DOMAIN batchQueue # {}

updateReactiveValue ==
    /\ Running("set", "before")
    /\ NextHandler(middleware, "before", Top.i) = 0
    /\ IF Batching
       THEN /\ batchQueue' = [k \in DOMAIN batchQueue \cup {Top.h[1]} |->
                                IF k = Top.h[1] THEN Top.res.value ELSE batchQueue[k]]
            /\ stack' = WithTop(Begin(Top, "after", V(heap[Top.h].value)))
       ELSE /\ stack' = WithTop([Begin(Top, "beforeUpdate", Top.res)
                                   EXCEPT !.old = V(heap[Top.h].value)])
            /\ UNCHANGED batchQueue
    /\ UNCHANGED <<Engine, Tasks, Listeners, reactives, heap, history, subscriptions, destroying,
                   last, calls, recommits>>

beforeUpdateHook ==
    /\ Running("set", "beforeUpdate")
    /\ LET j == NextHandler(plugins, "beforeUpdate", Top.i)
       IN  /\ j # 0
           /\ stack' = WithTop(
                IF Throws(plugins[j].beforeUpdate, HookInput(Top))
                THEN [Caught(Top, Error("beforeUpdate", j, Top.h[1]))
                        EXCEPT !.hooked = TRUE]
                ELSE [Called(Top, plugins, "beforeUpdate", j) EXCEPT !.hooked = TRUE])
    /\ UNCHANGED <<Engine, Tasks, Listeners, Registry, destroying, last, calls, recommits>>

\* a ledger that makes room by giving up the entry it was handed
updateHistoryDropsNewest(id, value) ==
    LET log == IF id \in DOMAIN history THEN history[id] ELSE <<>>
        kept == IF Len(log) >= options.historySize THEN log ELSE Append(log, value)
    IN  [k \in DOMAIN history \cup {id} |-> IF k = id THEN kept ELSE history[k]]

\* updateHistory: push, then drop the oldest entry once over historySize
updateHistory(id, value) ==
    LET log == IF id \in DOMAIN history THEN history[id] ELSE <<>>
        pushed == Append(log, value)
        kept == IF Len(pushed) > options.historySize THEN Tail(pushed) ELSE pushed
    IN  [k \in DOMAIN history \cup {id} |-> IF k = id THEN kept ELSE history[k]]

\* a write that lands in a copy of the object, out of its holders' sight
WrittenToCopy(r, value) == [r EXCEPT !.updated = TRUE, !.updateCount = @ + 1]

\* a write that is left out when the value is the one already there
WrittenIfChanged(r, value) ==
    IF r.value = value THEN r
    ELSE [r EXCEPT !.value = value, !.updated = TRUE, !.updateCount = @ + 1]

\* a write that takes the reactive out of its error state
WrittenAndCleared(r, value) ==
    [r EXCEPT !.value = value, !.updated = TRUE, !.updateCount = @ + 1,
              !.status = "idle", !.error = NoError]

\* lines 816-822: the object the holders have is written in place
Written(r, value) ==
    [r EXCEPT !.value = value, !.updated = TRUE, !.updateCount = @ + 1]

\* lines 816-830: the new value, the metadata, the history, the walk's queue
commit ==
    /\ Running("set", "beforeUpdate")
    /\ NextHandler(plugins, "beforeUpdate", Top.i) = 0
    /\ heap' = [heap EXCEPT ![Top.h] = Written(@, Top.res.value)]
    /\ history' = IF options.enableHistory
                  THEN updateHistory(Top.h[1], Top.old.value)
                  ELSE history
    /\ stack' = WithTop([Top EXCEPT !.pc = "notify", !.new = Top.res,
                                    !.committed = TRUE,
                                    !.prior = V(heap[Top.h].value),
                                    !.appended = options.enableHistory,
                                    !.queue = heap[Top.h].dependents,
                                    !.visited = {}])
    /\ UNCHANGED <<Engine, Tasks, Listeners, reactives, batchQueue, subscriptions, destroying, last,
                   calls, recommits>>

(***************************************************************************)
(* notifyDependents (lines 855-875): one iteration of the while loop, up   *)
(* to the awaited dependent.set or to the end of the iteration.            *)
(***************************************************************************)
\* a walk that ends the branch at a dependent it did not call
DependentsOfNone(id) == <<>>

\* the dependents the iteration appends for a dependent it did not call
DependentsOf(id) ==
    IF getReactive(id) = NoHandle THEN <<>> ELSE getReactive(id).dependents

HasMutator(id) == getReactive(id) # NoHandle /\ getReactive(id).set

notifyDependents ==
    /\ Running("set", "notify")
    /\ Top.queue # <<>>
    /\ LET dependentId == Head(Top.queue)
           f == [Top EXCEPT !.queue = Tail(@)]
       IN  IF dependentId \in Top.visited
           THEN /\ stack' = WithTop(f)
                /\ UNCHANGED recommits
           ELSE IF HasMutator(dependentId)
           THEN /\ Len(stack) < limits.depth
                /\ stack' = Append(
                     WithTop([f EXCEPT !.visited = @ \cup {dependentId},
                                       !.pc = "awaitDependent",
                                       !.cur = RefOf(dependentId)]),
                     SetFrame(RefOf(dependentId), getReactive(dependentId).value, TRUE))
                /\ recommits' = [recommits EXCEPT ![dependentId] = @ + 1]
           ELSE /\ stack' = WithTop([f EXCEPT !.visited = @ \cup {dependentId},
                                              !.queue = @ \o DependentsOf(dependentId),
                                              !.skipped = @ \cup
                                                 {RefOf(d) : d \in {dependentId}
                                                                 \cap {x \in Ids : reactives[x] # 0}}])
                /\ UNCHANGED recommits
    /\ UNCHANGED <<Engine, Tasks, Listeners, Registry, destroying, last, calls>>

\* the walk is over: runPluginHook("afterUpdate", processedValue)
notified ==
    /\ Running("set", "notify")
    /\ Top.queue = <<>>
    /\ stack' = WithTop(Begin(Top, "afterUpdate", Top.new))
    /\ UNCHANGED <<Engine, Tasks, Listeners, Registry, destroying, last, calls, recommits>>

afterUpdateHook ==
    /\ Running("set", "afterUpdate")
    /\ LET j == NextHandler(plugins, "afterUpdate", Top.i)
       IN  /\ j # 0
           /\ stack' = WithTop(
                IF Throws(plugins[j].afterUpdate, HookInput(Top))
                THEN Caught(Top, Error("afterUpdate", j, Top.h[1]))
                ELSE Called(Top, plugins, "afterUpdate", j))
    /\ UNCHANGED <<Engine, Tasks, Listeners, Registry, destroying, last, calls, recommits>>

\* updateReactiveValue returned: runMiddleware("after", reactive.value())
updated ==
    /\ Running("set", "afterUpdate")
    /\ NextHandler(plugins, "afterUpdate", Top.i) = 0
    /\ stack' = WithTop(Begin(Top, "after", V(heap[Top.h].value)))
    /\ UNCHANGED <<Engine, Tasks, Listeners, Registry, destroying, last, calls, recommits>>

middlewareAfter ==
    /\ Running("set", "after")
    /\ LET j == NextHandler(middleware, "after", Top.i)
       IN  /\ j # 0
           /\ stack' = WithTop(
                IF Throws(middleware[j].after, HookInput(Top))
                THEN Caught(Top, Error("after", j, Top.h[1]))
                ELSE Called(Top, middleware, "after", j))
    /\ UNCHANGED <<Engine, Tasks, Listeners, Registry, destroying, last, calls, recommits>>

setReturn ==
    /\ Running("set", "after")
    /\ NextHandler(middleware, "after", Top.i) = 0
    /\ Return(Top, NoError)
    /\ UNCHANGED <<Engine, parked, Listeners, Registry, destroying, calls, recommits>>

(***************************************************************************)
(* handleError (lines 922-949), called from the catch of set.              *)
(***************************************************************************)
handleError ==
    /\ Running("set", "catch")
    /\ heap' = [heap EXCEPT ![Top.h].status = "error", ![Top.h].error = Top.err]
    /\ stack' = WithTop([Top EXCEPT !.pc = "handleError", !.i = 1])
    /\ UNCHANGED <<Engine, Tasks, Listeners, reactives, history, batchQueue, subscriptions, destroying,
                   last, calls, recommits>>

\* what a handler that throws does to the loop it is called from
Thrown(f, err) == [f EXCEPT !.pc = "rejected", !.err = err]

Handled(f, name, j) == [f EXCEPT !.i = j + 1, !.handled = Append(@, name)]

pluginHandleError ==
    /\ Running("set", "handleError")
    /\ LET j == NextHandler(plugins, "handleError", Top.i)
       IN  /\ j # 0
           /\ LET f == Handled(Top, <<"plugin", plugins[j].name>>, j)
              IN  stack' = WithTop(
                    IF Throws(plugins[j].handleError, Undefined)
                    THEN Thrown(f, Error("handleError", j, Top.h[1]))
                    ELSE f)
    /\ UNCHANGED <<Engine, Tasks, Listeners, Registry, destroying, last, calls, recommits>>

pluginsHandled ==
    /\ Running("set", "handleError")
    /\ NextHandler(plugins, "handleError", Top.i) = 0
    /\ stack' = WithTop([Top EXCEPT !.pc = "error", !.i = 1])
    /\ UNCHANGED <<Engine, Tasks, Listeners, Registry, destroying, last, calls, recommits>>

middlewareError ==
    /\ Running("set", "error")
    /\ LET j == NextHandler(middleware, "error", Top.i)
       IN  /\ j # 0
           /\ LET f == Handled(Top, <<"middleware", middleware[j].name>>, j)
              IN  stack' = WithTop(
                    IF Throws(middleware[j].error, Undefined)
                    THEN Thrown(f, Error("error", j, Top.h[1]))
                    ELSE f)
    /\ UNCHANGED <<Engine, Tasks, Listeners, Registry, destroying, last, calls, recommits>>

\* throw error, at the end of handleError
rethrow ==
    /\ Running("set", "error")
    /\ NextHandler(middleware, "error", Top.i) = 0
    /\ stack' = WithTop([Top EXCEPT !.pc = "rejected"])
    /\ UNCHANGED <<Engine, Tasks, Listeners, Registry, destroying, last, calls, recommits>>

\* the set call rejects to whoever awaits it
setReject ==
    /\ Running("set", "rejected")
    /\ Return(Top, Top.err)
    /\ UNCHANGED <<Engine, parked, Listeners, Registry, destroying, calls, recommits>>

(***************************************************************************)
(* batch (lines 835-852).  Promise.all starts every operation; each runs   *)
(* to its first suspension point, and from there the operations take turns *)
(* at their suspension points.  The operations are set calls on one        *)
(* reactive, as in the example use (lines 1128-1132).                      *)
(***************************************************************************)
Request(h, v) == [h |-> h, v |-> v]

Operations ==
    {<<Request(h, v1), Request(h, v2)>> : h \in Handles, v1 \in Values, v2 \in Values}

Started(ops) == [k \in 1 .. Len(ops) |-> <<SetFrame(ops[k].h, ops[k].v, FALSE)>>]

batch(ops) ==
    /\ Idle
    /\ limits.batch
    /\ calls + Len(ops) <= limits.calls
    /\ \A k \in 1 .. Len(ops) : Allocated(ops[k].h) /\ heap[ops[k].h].set
    /\ stack' = Head(Started(ops))
    /\ parked' = Tail(Started(ops))
    /\ batchCall' = [phase |-> "ops", ops |-> ops, left |-> Len(ops),
                     failed |-> FALSE, err |-> NoError,
                     pre |-> [h \in Handles |->
                                IF Allocated(h) THEN Snapshot(h) ELSE NoHandle]]
    /\ calls' = calls + Len(ops)
    /\ recommits' = [id \in Ids |-> 0]
    /\ last' = [op |-> "none"]
    /\ UNCHANGED <<Engine, Listeners, Registry, destroying>>

\* the running call is suspended, or has ended, and a parked one goes on
resume(k) ==
    /\ k \in 1 .. Len(parked)
    /\ stack' = parked[k]
    /\ parked' = IF stack = <<>>
                 THEN SubSeq(parked, 1, k - 1) \o SubSeq(parked, k + 1, Len(parked))
                 ELSE [parked EXCEPT ![k] = stack]
    /\ UNCHANGED <<Engine, Listeners, Registry, batchCall, destroying, last, calls,
                   recommits>>

Orderings(S) ==
    {q \in [1 .. Cardinality(S) -> S] :
       \A i, j \in 1 .. Cardinality(S) : i # j => q[i] # q[j]}

\* every operation resolved (lines 838-847): the queue is read and cleared,
\* and set is called for each entry whose reactive has a mutator
flush ==
    /\ batchCall.phase = "ops"
    /\ batchCall.left = 0
    /\ ~batchCall.failed
    /\ LET updates == {id \in DOMAIN batchQueue : HasMutator(id)}
       IN  \E order \in Orderings(updates) :
             LET started == [k \in 1 .. Len(order) |->
                               <<SetFrame(RefOf(order[k]), batchQueue[order[k]], FALSE)>>]
             IN  /\ stack' = IF started = <<>> THEN <<>> ELSE Head(started)
                 /\ parked' = IF started = <<>> THEN <<>> ELSE Tail(started)
                 /\ batchCall' = [batchCall EXCEPT !.phase = "flush",
                                                   !.left = Len(order)]
    /\ batchQueue' = EmptyMap
    /\ UNCHANGED <<Engine, Listeners, reactives, heap, history, subscriptions,
                   destroying, last, calls, recommits>>

\* .then(resolve): every flushed set resolved
batchResolve ==
    /\ batchCall.phase = "flush"
    /\ batchCall.left = 0
    /\ ~batchCall.failed
    /\ batchCall' = [batchCall EXCEPT !.phase = "resolved"]
    /\ last' = [op |-> "batch", res |-> "resolved", err |-> NoError]
    /\ UNCHANGED <<Engine, Listeners, Registry, stack, parked, destroying, calls,
                   recommits>>

\* .catch(reject): the first rejection settles the batch; the calls still in
\* progress are not stopped
batchReject ==
    /\ Open
    /\ batchCall.failed
    /\ batchCall' = [batchCall EXCEPT !.phase = "rejected"]
    /\ last' = [op |-> "batch", res |-> "rejected", err |-> batchCall.err]
    /\ UNCHANGED <<Engine, Listeners, Registry, stack, parked, destroying, calls,
                   recommits>>

(***************************************************************************)
(* subscribe and unsubscribe (lines 1011-1022), handed to plugins in the   *)
(* SystemContext.  No line of the class calls a member of subscriptions.   *)
(***************************************************************************)
Subscribers(id) == IF id \in DOMAIN subscriptions THEN subscriptions[id] ELSE {}

subscribe(id, callback) ==
    /\ Idle
    /\ Building
    /\ Cardinality(capabilities) < limits.subs
    /\ subscriptions' = [k \in DOMAIN subscriptions \cup {id} |->
                           IF k = id THEN Subscribers(id) \cup {callback}
                           ELSE subscriptions[k]]
    /\ capabilities' = capabilities \cup {<<id, callback>>}
    /\ last' = [op |-> "subscribe", id |-> id, callback |-> callback]
    /\ UNCHANGED <<Engine, Tasks, invoked, reactives, heap, history, batchQueue, stack,
                   destroying, calls, recommits>>

\* a closure that drops the whole subscriber set of the id
cancelEvery(id, callback) ==
    /\ Idle
    /\ Building
    /\ <<id, callback>> \in capabilities
    /\ subscriptions' = Without(subscriptions, id)
    /\ last' = [op |-> "cancel", id |-> id, callback |-> callback,
                before |-> subscriptions]
    /\ UNCHANGED <<Engine, Tasks, Listeners, reactives, heap, history, batchQueue,
                   stack, destroying, calls, recommits>>

\* the closure subscribe returned: this.subscriptions.get(id)?.delete(callback)
cancel(id, callback) ==
    /\ Idle
    /\ Building
    /\ <<id, callback>> \in capabilities
    /\ subscriptions' = IF id \in DOMAIN subscriptions
                        THEN [subscriptions EXCEPT ![id] = @ \ {callback}]
                        ELSE subscriptions
    /\ last' = [op |-> "cancel", id |-> id, callback |-> callback,
                before |-> subscriptions]
    /\ UNCHANGED <<Engine, Tasks, Listeners, reactives, heap, history, batchQueue,
                   stack, destroying, calls, recommits>>

unsubscribe(id) ==
    /\ Idle
    /\ Building
    /\ limits.subs > 0
    /\ subscriptions' = Without(subscriptions, id)
    /\ last' = [op |-> "unsubscribe", id |-> id]
    /\ UNCHANGED <<Engine, Tasks, Listeners, reactives, heap, history, batchQueue,
                   stack, destroying, calls, recommits>>

Next ==
    \/ \E cfg \in Configs : create(cfg)
    \/ beforeCreateHook
    \/ createReactive
    \/ afterCreateHook
    \/ createReturn
    \/ \E id \in Ids : removeReactive(id)
    \/ beforeDestroyHook
    \/ \E h \in Handles, d \in Ids : addDependent(h, d)
    \/ \E h \in Handles, v \in Values : set(h, v)
    \/ \E h \in Handles, v \in Values : setAbsent(h, v)
    \/ middlewareBefore
    \/ updateReactiveValue
    \/ beforeUpdateHook
    \/ commit
    \/ notifyDependents
    \/ notified
    \/ afterUpdateHook
    \/ updated
    \/ middlewareAfter
    \/ setReturn
    \/ handleError
    \/ pluginHandleError
    \/ pluginsHandled
    \/ middlewareError
    \/ rethrow
    \/ setReject
    \/ \E ops \in Operations : batch(ops)
    \/ \E k \in 1 .. Len(parked) : resume(k)
    \/ flush
    \/ batchResolve
    \/ batchReject
    \/ \E id \in GivenIds, callback \in Callbacks : subscribe(id, callback)
    \/ \E id \in GivenIds, callback \in Callbacks : cancel(id, callback)
    \/ \E id \in GivenIds : unsubscribe(id)

Spec == Init /\ [][Next]_vars
SpecWide == InitWide /\ [][Next]_vars

(***************************************************************************)
(* The alternative implementation, createComponentFactory: a component of  *)
(* one signal under the key "count", its setter and the subscriber table.  *)
(* The setter is an async function: it runs to its await, and what follows *)
(* the await runs in one piece when the call is resumed.                   *)
(***************************************************************************)
MaxSetterCalls == 2  \* setter calls
MaxObservers == 2    \* closures subscribe has returned

\* the keys subscribe is called with; the signal is under Count
Count == "count"
SignalKeys == {Count, "total"}
\* the callbacks passed to subscribe; boom throws when it is called
Observers == {"log", "boom"}
Thrower(callback) == callback = "boom"

\* the functions of a signal's config: "none" is a function left out
Transforms == {"none", "inc", "throws"}
Validators == {"none", "positive", "throws"}
Setters == {"none", "max", "throws"}
Callouts == {"none", "ok", "throws"}
BaseConfig(initialValue, transform, validate, setter, onSuccess, onError) ==
    [type |-> "signal", initialValue |-> initialValue, transform |-> transform,
     validate |-> validate, setter |-> setter, onSuccess |-> onSuccess,
     onError |-> onError]
SignalConfigs ==
    {BaseConfig(0, t, v, s, ok, err) :
        t \in Transforms, v \in Validators, s \in Setters,
        ok \in Callouts, err \in Callouts}

ComponentSystem == <<plugins, initialized, middleware, options, limits, reactives,
                     heap, history, batchQueue, subscriptions, stack, parked,
                     batchCall, capabilities, invoked, destroying, last, calls,
                     recommits>>

createComponentFactory(config) ==
    /\ conf = config
    /\ signal = config.initialValue
    /\ subscribers = EmptyMap
    /\ awaiting = <<>>
    /\ disposers = {}
    /\ settledCall = [outcome |-> "none"]
    /\ setterCalls = 0

\* baseConfig.transform(newValue), where transform returns
transformed(newValue) ==
    IF conf.transform = "inc" THEN (newValue + 1) % NumVals ELSE newValue

validateValue(value) ==
    CASE conf.validate = "none" -> TRUE
      [] conf.validate = "positive" -> value > 0
      [] conf.validate = "throws" -> FALSE

\* what the updater handed to setValue returns, where baseConfig.setter returns
updater(current, transformedValue) ==
    IF conf.setter = "max"
    THEN IF current > transformedValue THEN current ELSE transformedValue
    ELSE transformedValue

\* the calls forEach makes over a set of callbacks, up to the first that throws
RECURSIVE forEach(_, _)
forEach(list, value) ==
    IF list = <<>> THEN <<>>
    ELSE IF Thrower(Head(list)) THEN <<<<"notify", Head(list), value>>>>
    ELSE <<<<"notify", Head(list), value>>>> \o forEach(Tail(list), value)

SubscribersOf(key) == IF key \in DOMAIN subscribers THEN subscribers[key] ELSE <<>>
notifySubscribers(key, value) == forEach(SubscribersOf(key), value)
AnyThrows(list) == \E i \in 1 .. Len(list) : Thrower(list[i])

\* a call of a callout of the config: the events it adds and whether it throws
Callout(f, name, arg) ==
    [events |-> IF f = "none" THEN <<>> ELSE <<<<name, arg>>>>, thrown |-> f = "throws"]

\* the try block from the await on: the value it leaves in the signal, the
\* calls it makes in order, and whether it throws
Tried(call) ==
    IF ~call.isValid
    THEN LET e == Callout(conf.onError, "onError", "Validation failed")
         IN  [value |-> signal, events |-> e.events, thrown |-> e.thrown]
    ELSE IF conf.setter = "throws"
    THEN [value |-> signal, events |-> <<>>, thrown |-> TRUE]
    ELSE LET new == updater(signal, call.transformedValue)
             s == Callout(conf.onSuccess, "onSuccess", call.transformedValue)
             n == notifySubscribers(Count, call.transformedValue)
         IN  IF s.thrown
             THEN [value |-> new, events |-> <<<<"setValue", new>>>> \o s.events,
                   thrown |-> TRUE]
             ELSE [value |-> new, events |-> <<<<"setValue", new>>>> \o s.events \o n,
                   thrown |-> AnyThrows(SubscribersOf(Count))]

\* the catch block, and how the call ends
settle(call, validated, t) ==
    LET e == Callout(conf.onError, "onError", "thrown")
    IN  [arg |-> call.arg, transformedValue |-> call.transformedValue,
         validated |-> validated, before |-> signal, value |-> t.value,
         subs |-> SubscribersOf(Count),
         events |-> IF t.thrown THEN t.events \o e.events ELSE t.events,
         outcome |-> IF t.thrown /\ e.thrown THEN "rejected" ELSE "resolved"]

\* setters[key](newValue), up to its await
setter(newValue) ==
    /\ conf.type = "signal"
    /\ setterCalls < MaxSetterCalls
    /\ setterCalls' = setterCalls + 1
    /\ IF conf.transform = "throws"
       THEN /\ settledCall' =
                 settle([arg |-> newValue, transformedValue |-> newValue], "unreached",
                           [value |-> signal, events |-> <<>>, thrown |-> TRUE])
            /\ UNCHANGED awaiting
       ELSE /\ awaiting' =
                 Append(awaiting,
                        [arg |-> newValue, transformedValue |-> transformed(newValue),
                         isValid |-> validateValue(transformed(newValue))])
            /\ UNCHANGED settledCall
    /\ UNCHANGED <<ComponentSystem, conf, signal, subscribers, disposers>>

\* a suspended setter call resumes with isValid and runs to its end
setterResumed(k) ==
    /\ k \in 1 .. Len(awaiting)
    /\ LET call == awaiting[k]
           t == Tried(call)
       IN  /\ signal' = t.value
           /\ settledCall' =
                settle(call, IF call.isValid THEN "passed" ELSE "failed", t)
    /\ awaiting' = SubSeq(awaiting, 1, k - 1) \o SubSeq(awaiting, k + 1, Len(awaiting))
    /\ UNCHANGED <<ComponentSystem, conf, subscribers, disposers, setterCalls>>

\* context.subscribe(key, callback)
contextSubscribe(key, callback) ==
    /\ conf.type = "signal"
    /\ Cardinality(disposers \cup {<<key, callback>>}) <= MaxObservers
    /\ subscribers' =
         LET have == SubscribersOf(key)
             added == IF \E i \in 1 .. Len(have) : have[i] = callback
                      THEN have ELSE Append(have, callback)
         IN  [k \in DOMAIN subscribers \cup {key} |->
                IF k = key THEN added ELSE subscribers[k]]
    /\ disposers' = disposers \cup {<<key, callback>>}
    /\ UNCHANGED <<ComponentSystem, conf, signal, awaiting, settledCall, setterCalls>>

\* the closure subscribe(key, callback) returned is called
dispose(key, callback) ==
    /\ <<key, callback>> \in disposers
    /\ subscribers' =
         [subscribers EXCEPT ![key] = SelectSeq(@, LAMBDA c : c # callback)]
    /\ UNCHANGED <<ComponentSystem, conf, signal, awaiting, disposers, settledCall,
                   setterCalls>>

InitSignal ==
    /\ Constructor(System(<<>>, <<>>, Options(FALSE, FALSE)))
    /\ limits = Narrow
    /\ \E config \in SignalConfigs : createComponentFactory(config)

NextSignal ==
    \/ \E newValue \in Values : setter(newValue)
    \/ \E k \in 1 .. Len(awaiting) : setterResumed(k)
    \/ \E key \in SignalKeys, callback \in Observers : contextSubscribe(key, callback)
    \/ \E key \in SignalKeys, callback \in Observers : dispose(key, callback)

SpecSignal == InitSignal /\ [][NextSignal]_vars

(***************************************************************************)
(* Properties.                                                             *)
(***************************************************************************)
\* no batch has been called: the calls of the run came one after the other
Alone == batchCall.phase = "none"
Ended(op, res) == Idle /\ Alone /\ last.op = op /\ last.res = res
SetEnded(res) == Ended("set", res) /\ "frame" \in DOMAIN last
Frames ==
    {stack[k] : k \in 1 .. Len(stack)}
    \cup UNION {{parked[n][k] : k \in 1 .. Len(parked[n])} : n \in 1 .. Len(parked)}
    \cup (IF "frame" \in DOMAIN last THEN {last.frame} ELSE {})
SetFrames == {f \in Frames : f.op = "set"}
Registered == {id \in Ids : reactives[id] # 0}

\* C1: whenever no call is in progress, each registered reactive R is in the
\* dependents of every registered reactive named in R.dependencies, and the
\* dependents of a registered reactive name registered reactives only.
C1_DependentsInverse ==
    Idle =>
      \A id \in Registered :
        /\ \A d \in getReactive(id).dependencies \cap Registered :
              Member(getReactive(d).dependents, id)
        /\ \A k \in 1 .. Len(getReactive(id).dependents) :
              getReactive(id).dependents[k] \in Registered

\* C2: a set call that rejects leaves the value, the update count and the
\* history log of its reactive as they were when the call started.
C2_RejectedSetCommitsNothing ==
    SetEnded("rejected") => Snapshot(last.h) = last.frame.pre

\* C3: a set call in which a before middleware raised has run no beforeUpdate
\* hook and has committed nothing: value, update count and history log of its
\* reactive are as they were when the call started.
C3_BeforeMiddlewareRejects ==
    \A f \in SetFrames :
      f.failedAt = "before" =>
        /\ ~f.hooked
        /\ ~f.committed
        /\ Alone => Snapshot(f.h) = f.pre

C3_Witness ==
    /\ SetEnded("rejected")
    /\ last.frame.failedAt = "before"
    /\ last.frame.arg # heap[last.h].value

\* C4: a set call in which a failure was raised rejects with that failure and
\* leaves status "error" and that failure in the metadata; a set call that
\* resolves has met no failure.
C4_FailureIsRecordedAndRethrown ==
    /\ SetEnded("rejected") =>
         /\ heap[last.h].status = "error"
         /\ heap[last.h].error = last.frame.cause
         /\ last.err = last.frame.cause
    /\ SetEnded("resolved") => last.frame.cause = NoError

\* C5: when a set call has rejected, the handleError hook of every plugin
\* that has one and the error handler of every middleware that has one were
\* invoked for it.
C5_EveryErrorHandlerRuns ==
    SetEnded("rejected") =>
      /\ \A j \in 1 .. Len(plugins) :
            plugins[j].handleError # "none" =>
              Member(last.frame.handled, <<"plugin", plugins[j].name>>)
      /\ \A j \in 1 .. Len(middleware) :
            middleware[j].error # "none" =>
              Member(last.frame.handled, <<"middleware", middleware[j].name>>)

\* C6: in every run of a plugin hook pipeline, the hooks called so far are
\* those of the implementing plugins in registration order, the first was
\* given the caller's value, each later one the value the one before it
\* returned, and the pipeline's value is the value the last one returned.
HookNames == {"beforeCreate", "afterCreate", "beforeUpdate", "afterUpdate"}

C6_HookPipelineIsLeftFold ==
    \A k \in 1 .. Len(stack) :
      LET f == stack[k]
          done == {j \in 1 .. f.i - 1 : plugins[j][f.pc] # "none"}
      IN  f.pc \in HookNames =>
            /\ Len(f.trace) = Cardinality(done)
            /\ \A n \in 1 .. Len(f.trace) :
                 /\ f.trace[n].by \in done
                 /\ n > 1 => f.trace[n - 1].by < f.trace[n].by
                 /\ f.trace[n].in = IF n = 1 THEN f.start ELSE f.trace[n - 1].out
                 /\ f.trace[n].out = Returns(plugins[f.trace[n].by][f.pc], f.trace[n].in)
            /\ f.res = IF f.trace = <<>> THEN f.start ELSE f.trace[Len(f.trace)].out

\* two plugins implement beforeCreate, and the first changed the config
C6_Witness ==
    /\ Running("create", "beforeCreate")
    /\ Len(Top.trace) = 2
    /\ Top.trace[1].out # Top.start
    /\ Top.trace[2].out # Top.trace[1].out

\* C7: a set call on a reactive without a mutator ends in an Unsupported
\* error, and no propagation walk passes over a dependent for want of a mutator.
Unsupported == [stage |-> "Unsupported", by |-> 0, on |-> NoId]

C7_ReadOnlyRejects ==
    /\ Idle /\ last.op = "set" /\ ~heap[last.h].set =>
         last.res = "rejected" /\ last.err = Unsupported
    /\ \A f \in SetFrames : f.skipped = {}

\* C8: during the propagation one caller's set starts, no reactive other
\* than the one the caller set is recommitted more than once.
C8_RecommittedAtMostOnce ==
    \A id \in Ids :
      Alone /\ stack # <<>> /\ stack[1].op = "set" /\ id # stack[1].h[1]
        => recommits[id] <= 1

\* C9: propagation is well-founded: no set call awaits, somewhere inside
\* its own walk, a further call of itself waiting on the same dependent.  The
\* walk of a set call does not depend on the values set, so a call nested in
\* an equal call is followed by a third, and so on without end.
C9_PropagationTerminates ==
    \A k, l \in 1 .. Len(stack) :
      k < l =>
        ~ /\ stack[k].op = "set" /\ stack[l].op = "set"
          /\ stack[k].h = stack[l].h
          /\ stack[k].pc = "awaitDependent" /\ stack[l].pc = "awaitDependent"
          /\ stack[k].cur = stack[l].cur
          /\ stack[k].queue = stack[l].queue

\* C10: when the recommit of a dependent has failed inside the walk of a set
\* call, every other dependent with a mutator that was enqueued by then has
\* been recommitted by the time the call ends.
C10_SiblingsStillRecommitted ==
    /\ SetEnded("rejected")
    /\ last.frame.failedAt = "awaitDependent"
    /\ last.frame.cur[1] # last.h[1]
    =>
      \A k \in 1 .. Len(last.frame.queue) :
        LET d == last.frame.queue[k]
        IN  d \in last.frame.visited \/ d = last.h[1] \/ ~HasMutator(d)

\* C11: with batchUpdates on, a resolved batch of two set calls on one
\* reactive X with different values has committed to X once: the update count
\* grew by one, the value is the second operation's, and the history log got
\* one entry, the value X had before the batch.
Recent(log) ==
    IF Len(log) > options.historySize
    THEN SubSeq(log, Len(log) - options.historySize + 1, Len(log))
    ELSE log

Transparent ==
    /\ \A j \in 1 .. Len(plugins) : plugins[j].beforeUpdate \in {"none", "id", "rejectTop"}
    /\ \A j \in 1 .. Len(middleware) : middleware[j].before \in {"none", "id", "rejectTop"}

BatchEnded(res) ==
    /\ batchCall.phase = res
    /\ stack = <<>> /\ parked = <<>>
    /\ calls = Len(batchCall.ops)

C11_BatchCollapses ==
    BatchEnded("resolved") /\ options.batchUpdates =>
      LET X == batchCall.ops[1].h
          pre == batchCall.pre[X]
      IN  /\ batchCall.ops[2].h = X
          /\ batchCall.ops[1].v # batchCall.ops[2].v
          /\ heap[X].dependents = <<>>
          =>
            /\ heap[X].updateCount = pre.updateCount + 1
            /\ Transparent => heap[X].value = batchCall.ops[2].v
            /\ options.enableHistory =>
                 Snapshot(X).log = Recent(Append(pre.log, pre.value))

\* C12: a batch in which an operation rejected is rejected, and while it is
\* the only mutation the callers asked for, every reactive has the value and
\* the update count it had when the batch was called.
C12_BatchAborts ==
    /\ BatchEnded("resolved") => ~batchCall.failed
    /\ batchCall.phase = "rejected" /\ calls = Len(batchCall.ops) =>
         \A h \in Handles :
           Allocated(h) =>
             /\ heap[h].value = batchCall.pre[h].value
             /\ heap[h].updateCount = batchCall.pre[h].updateCount

\* C13: with batchUpdates on, while the operations of a batch run, a set
\* call of an operation has run no beforeUpdate hook and committed nothing:
\* once past the before middleware its value sits in the queue under the
\* reactive's id, and the reactive has the value it had when the batch opened.
C13_OpenBatchDefers ==
    batchCall.phase = "ops" /\ options.batchUpdates =>
      \A t \in {stack} \cup {parked[n] : n \in 1 .. Len(parked)} :
        t # <<>> =>
          /\ ~t[1].hooked
          /\ ~t[1].committed
          /\ heap[t[1].h].value = batchCall.pre[t[1].h].value
          /\ t[1].pc = "after" => t[1].h[1] \in DOMAIN batchQueue

\* C14: no history log is ever longer than historySize, and, while the calls
\* come one after the other, each commit to a reactive turns the log under its
\* id into the most recent historySize entries of the log followed by the
\* value the commit replaced; a step without a commit under an id leaves the
\* log under that id alone, or removes it.
LogOf(id) == IF id \in DOMAIN history THEN history[id] ELSE <<>>

Committing(h) == Allocated(h) /\ heap'[h].updateCount = heap[h].updateCount + 1

C14_HistoryIsBoundedFifo ==
    /\ [](\A id \in DOMAIN history : Len(history[id]) <= options.historySize)
    /\ [][options.enableHistory /\ Alone =>
            \A h \in Handles :
              /\ Committing(h) =>
                   history' = [k \in DOMAIN history \cup {h[1]} |->
                                 IF k = h[1]
                                 THEN Recent(Append(LogOf(h[1]), heap[h].value))
                                 ELSE history[k]]
              /\ (\A g \in Handles : g[1] = h[1] => ~Committing(g)) =>
                   \/ h[1] \notin DOMAIN history'
                   \/ h[1] \in DOMAIN history /\ history'[h[1]] = history[h[1]]]_vars

\* the log is full and a further commit has pushed its oldest entry out
C14_Witness ==
    /\ Alone
    /\ options.enableHistory
    /\ \E id \in Registered :
         /\ getReactive(id).updateCount > options.historySize
         /\ Len(LogOf(id)) = options.historySize
         /\ LogOf(id)[1] # LogOf(id)[options.historySize]

\* C15: with history on, a set call has appended to the log exactly when it
\* has committed, the entry is the value the commit replaced, and a set call
\* in which a failure was raised has appended nothing.
C15_EntryOnSuccessfulCommitOnly ==
    \A f \in SetFrames :
      /\ options.enableHistory => (f.appended <=> f.committed)
      /\ Alone /\ f.appended => f.old = f.prior
      /\ f.cause # NoError => ~f.appended

\* C16: when a set call on a registered reactive has committed a value other
\* than the one it replaced and has resolved, every callback subscribed under
\* its id has been called.
C16_SubscribersAreCalled ==
    /\ SetEnded("resolved")
    /\ last.frame.committed
    /\ last.frame.new # last.frame.prior
    /\ RefOf(last.h[1]) = last.h
    =>
      \A callback \in Subscribers(last.h[1]) :
        \E n \in 1 .. Len(invoked) :
          invoked[n].id = last.h[1] /\ invoked[n].callback = callback

\* C17: calling the closure subscribe(id, callback) returned takes callback
\* out of the subscriber set of id when id has one, and leaves every other
\* subscriber set, and the other members of that one, as they were; without
\* the callback or the set there, it changes nothing.
C17_CapabilityRemovesOneCallback ==
    last.op = "cancel" =>
      /\ DOMAIN subscriptions = DOMAIN last.before
      /\ \A id \in DOMAIN subscriptions :
           subscriptions[id] = IF id = last.id
                               THEN last.before[id] \ {last.callback}
                               ELSE last.before[id]

\* the closure removed its callback and left another subscriber of the same id
C17_Witness ==
    /\ last.op = "cancel"
    /\ last.id \in DOMAIN last.before
    /\ last.callback \in last.before[last.id]
    /\ subscriptions[last.id] # {}

\* the closure was called with nothing of its own left to remove, after
\* removeReactive or unsubscribe or an earlier call of it
C17_WitnessAgain ==
    /\ last.op = "cancel"
    /\ last.callback \notin (IF last.id \in DOMAIN last.before
                             THEN last.before[last.id] ELSE {})
    /\ \E id \in DOMAIN subscriptions : subscriptions[id] # {}

\* C18: every beforeDestroy hook removeReactive starts finds its reactive
\* still registered, and after removeReactive(id) returns, id has no entry in
\* the registry, the history or the subscriber table.
C18_HooksBeforeDeletion ==
    /\ last.op = "beforeDestroy" => last.registered
    /\ last.op = "removeReactive" =>
         /\ reactives[last.id] = 0
         /\ last.id \notin DOMAIN history
         /\ last.id \notin DOMAIN subscriptions

\* C19: the history entry of every commit is the value the commit replaced:
\* no other commit to the reactive falls between the read of the old value
\* and the write of the new one in a set call, whether the calls come one
\* after the other or side by side.
C19_CommitsDoNotInterleave ==
    \A f \in SetFrames : f.committed /\ f.appended => f.old = f.prior

\* C20: no create call registers its reactive under an id that has a
\* registered reactive: the handle getReactive(id) returned when create built
\* its reactive was absent.
C20_CreateNeverReplaces ==
    \A f \in Frames : f.op = "create" => f.replaced[2] = 0

\* C21: a mutation works on the object create returned: no step of a set
\* call changes what getReactive returns, a commit leaves the id, the
\* dependencies and the creation stamp of its reactive alone and makes value()
\* on the handle return the value committed, and between commits value() on
\* every handle returns what it returned before.
CommitStep ==
    /\ Running("set", "beforeUpdate")
    /\ NextHandler(plugins, "beforeUpdate", Top.i) = 0
    /\ parked' = parked
    /\ stack' # stack

Identity(h) ==
    [id |-> heap[h].id, dependencies |-> heap[h].dependencies,
     created |-> heap[h].created]

C21_MutationInPlace ==
    [][/\ stack # <<>> /\ Top.op = "set" => reactives' = reactives
       /\ \A h \in Handles :
            Allocated(h) =>
              /\ Identity(h)' = Identity(h)
              /\ heap'[h].value =
                   IF CommitStep /\ Top.h = h
                   THEN stack'[Len(stack)].new.value
                   ELSE heap[h].value]_vars

\* a set call has committed a value other than the one it replaced, and the
\* handle create returned is the registered one and shows it
C21_Witness ==
    /\ SetEnded("resolved")
    /\ last.frame.committed
    /\ last.frame.new # last.frame.prior
    /\ RefOf(last.h[1]) = last.h
    /\ heap[last.h].value = last.frame.new.value

\* C22: while the beforeCreate hooks of a create call run, the registry is as
\* it was when create was called, and so it is when one of them has thrown; a
\* create call that resolves hands back a handle that is the registered one
\* under its id, with update count 0, status idle and the initialValue of the
\* config the beforeCreate hooks made of the caller's, under the caller's id
\* when there is one and else under an id that was not registered.
RECURSIVE Piped(_, _, _)
Piped(hook, w, i) ==
    IF i > Len(plugins) THEN w
    ELSE Piped(hook, IF plugins[i][hook] = "none" THEN w
                     ELSE Returns(plugins[i][hook], w), i + 1)

C22_CreateRegistersProcessedConfig ==
    /\ \A f \in Frames :
         f.op = "create" /\ f.pc = "beforeCreate" =>
           reactives = f.pre /\ f.h = <<NoId, 0>>
    /\ Ended("create", "resolved") =>
         LET h == last.h
             cfg == Piped("beforeCreate", C(last.frame.arg), 1).config
         IN  /\ RefOf(h[1]) = h
             /\ heap[h].value = cfg.initialValue
             /\ heap[h].updateCount = 0
             /\ ~heap[h].updated
             /\ heap[h].status = "idle"
             /\ IF last.frame.arg.id # NoId
                THEN h[1] = last.frame.arg.id
                ELSE last.frame.pre[h[1]] = 0 /\ h[1] \in Uuids

\* create resolved for a config without an id whose initialValue the
\* beforeCreate hooks changed
C22_Witness ==
    /\ Ended("create", "resolved")
    /\ last.frame.arg.id = NoId
    /\ heap[last.h].value # last.frame.arg.initialValue

\* a beforeCreate hook threw
C22_WitnessThrown ==
    /\ Ended("create", "rejected")
    /\ last.frame.pc = "beforeCreate"

\* C23: when create has rejected, the handleError hook of every plugin that
\* has one was invoked for the failure; a batch in which an operation or a
\* flushed set failed does not resolve, and the handleError hooks were invoked
\* for each of its set calls that failed.
C23_ErrorsRouteThroughHandleError ==
    /\ Ended("create", "rejected") =>
         \A j \in 1 .. Len(plugins) :
           plugins[j].handleError # "none" =>
             Member(last.frame.handled, <<"plugin", plugins[j].name>>)
    /\ batchCall.phase = "resolved" => ~batchCall.failed
    /\ \A f \in SetFrames :
         /\ ~Alone
         /\ f.pc = "rejected"
         /\ \E j \in 1 .. Len(plugins) : plugins[j].handleError # "none"
         => \E n \in 1 .. Len(f.handled) : f.handled[n][1] = "plugin"

\* C24: the stages of a set call come in the stated order: by the time a
\* before middleware handler has been called the beforeUpdate hooks of the
\* call have run; the history entry is in place when the walk over the
\* dependents starts; and the afterUpdate hooks start when the walk is over.
Implemented(list, hook) == Implementers(list, hook, 1) # {}

C24_StagesInStatedOrder ==
    \A f \in SetFrames :
      /\ f.pc = "before" /\ f.trace # <<>> /\ Implemented(plugins, "beforeUpdate")
           => f.hooked
      /\ f.pc \in {"notify", "awaitDependent"} /\ options.enableHistory => f.appended
      /\ f.pc = "afterUpdate" => f.committed /\ f.queue = <<>>

\* C25: the recommits of a propagation pass come one after the other,
\* nearest first: while the set call of a direct dependent of R is in
\* progress inside the pass of R, no third reactive is recommitted.
C25_BreadthFirstRecommits ==
    \A k \in 1 .. Len(stack) :
      /\ k > 2
      /\ stack[k].op = "set"
      /\ stack[k].propagated
      /\ stack[k].committed
      /\ stack[k - 1].h[1] # stack[k - 2].h[1]
      => stack[k].h[1] \in {stack[j].h[1] : j \in 1 .. k - 1}

\* C26: the propagation pass a commit of R starts never calls set on R: no
\* set call in progress inside the pass of a set call on R, at any depth, is a
\* set call on R.
C26_PassNeverRevisitsOrigin ==
    \A j, k \in 1 .. Len(stack) :
      j < k /\ stack[j].op = "set" /\ stack[k].op = "set"
        => stack[k].h[1] # stack[j].h[1]

\* C27: an iteration of the walk that takes an unvisited id D from the queue
\* calls set on the reactive registered under D with that reactive's current
\* value when it has a mutator; otherwise it commits nothing, goes on with the
\* rest of the queue and appends the dependents of D when D is registered.
\* When the set call of D has resolved, the walk goes on with the dependents
\* of D appended to its queue.
WalkStep ==
    /\ Running("set", "notify")
    /\ Top.queue # <<>>
    /\ parked' = parked
    /\ stack' # stack

RecommitDone ==
    /\ Running("set", "after")
    /\ Len(stack) > 1
    /\ NextHandler(middleware, "after", Top.i) = 0
    /\ parked' = parked
    /\ stack' # stack

C27_WalkRecommitsOrPassesOver ==
    [][/\ WalkStep /\ Head(Top.queue) \notin Top.visited =>
            LET D == Head(Top.queue)
                n == Len(stack)
            IN  IF reactives[D] # 0 /\ heap[<<D, reactives[D]>>].set
                THEN /\ Len(stack') = n + 1
                     /\ stack'[n + 1].op = "set"
                     /\ stack'[n + 1].h = <<D, reactives[D]>>
                     /\ stack'[n + 1].arg = heap[<<D, reactives[D]>>].value
                     /\ stack'[n].queue = Tail(Top.queue)
                ELSE /\ Len(stack') = n
                     /\ heap' = heap
                     /\ stack'[n].pc = "notify"
                     /\ stack'[n].queue =
                          Tail(Top.queue) \o
                            (IF reactives[D] = 0 THEN <<>>
                             ELSE heap[<<D, reactives[D]>>].dependents)
       /\ RecommitDone =>
            LET n == Len(stack) - 1
            IN  /\ Len(stack') = n
                /\ stack'[n].pc = "notify"
                /\ stack'[n].queue = stack[n].queue \o heap[Top.h].dependents]_vars

\* a walk has passed over a dependent without a mutator and is recommitting a
\* reactive it reached through the dependents of that one only
C27_Witness ==
    \E f \in SetFrames :
      /\ f.pc = "awaitDependent"
      /\ ~Member(heap[f.h].dependents, f.cur[1])
      /\ \E d \in f.skipped : ~heap[d].set /\ Member(heap[d].dependents, f.cur[1])

\* a walk has passed over an id that is not in the registry
C27_WitnessUnregistered ==
    \E f \in SetFrames :
      /\ f.committed
      /\ f.pc # "notify"
      /\ \E d \in f.visited : reactives[d] = 0

\* C28: a create call is never at a middleware handler and has had no error
\* handler called for it, and removeReactive returns with no call in
\* progress; in a set call, the before handlers called so far are those of
\* the middleware that have one, in registration order, the first was given
\* the caller's value, each later one the value the one before it returned.
MiddlewareStages == {"before", "after", "error"}

C28_MiddlewareOnlyAroundSet ==
    /\ \A f \in Frames :
         f.op = "create" => f.pc \notin MiddlewareStages /\ f.handled = <<>>
    /\ last.op = "removeReactive" => stack = <<>>
    /\ \A f \in SetFrames :
         f.pc = "before" =>
           LET done == {j \in 1 .. f.i - 1 : middleware[j].before # "none"}
           IN  /\ f.start = V(f.arg)
               /\ Len(f.trace) = Cardinality(done)
               /\ \A n \in 1 .. Len(f.trace) :
                    /\ f.trace[n].by \in done
                    /\ n > 1 => f.trace[n - 1].by < f.trace[n].by
                    /\ f.trace[n].in = IF n = 1 THEN V(f.arg) ELSE f.trace[n - 1].out
                    /\ f.trace[n].out =
                         Returns(middleware[f.trace[n].by].before, f.trace[n].in)

\* two before handlers have run in a set call, and the first changed the value
C28_Witness ==
    /\ Running("set", "before")
    /\ Len(Top.trace) = 2
    /\ Top.trace[1].out # V(Top.arg)

\* C29: the update count of a reactive is never below what it was when a set
\* call in progress on it started, lastUpdated is there exactly when the
\* count is above 0, and a set call that has rejected has left the count of
\* its reactive as it found it.
C29_UpdateCountCountsCommits ==
    /\ \A h \in Handles :
         Allocated(h) => (heap[h].updated <=> heap[h].updateCount > 0)
    /\ \A f \in SetFrames : heap[f.h].updateCount >= f.pre.updateCount
    /\ SetEnded("rejected") => heap[last.h].updateCount = last.frame.pre.updateCount

\* C30: the status of a reactive is idle or error, idle exactly while no
\* failure is recorded; a step changes the status or the recorded failure of
\* a reactive only by recording the failure of a set call on it with status
\* error, so a reactive in status error stays there, and a set call that
\* succeeds leaves status and failure as they were.
ErrorStep(h) == Running("set", "catch") /\ Top.h = h /\ parked' = parked

C30_ErrorIsAbsorbing ==
    /\ [](\A h \in Handles :
            Allocated(h) =>
              /\ heap[h].status \in {"idle", "error"}
              /\ heap[h].status = "idle" <=> heap[h].error = NoError)
    /\ [][\A h \in Handles :
            Allocated(h) =>
              /\ heap[h].status = "error" => heap'[h].status = "error"
              /\ IF ErrorStep(h) /\ stack' # stack
                 THEN heap'[h].status = "error" /\ heap'[h].error = Top.err
                 ELSE /\ heap'[h].status = heap[h].status
                      /\ heap'[h].error = heap[h].error]_vars

\* a set call has committed a new value to a reactive that an earlier set
\* call had left in status error
C30_Witness ==
    /\ SetEnded("resolved")
    /\ last.frame.committed
    /\ last.frame.new # last.frame.prior
    /\ heap[last.h].status = "error"

\* C31: the history ledger has a log only under registered ids, and every
\* log is no longer than the update count of the reactive registered under
\* its id: its entries are values that reactive gave up in commits.
C31_LedgerFollowsRegistry ==
    \A id \in DOMAIN history :
      /\ id \in Registered
      /\ Len(history[id]) <= getReactive(id).updateCount

\* C32: the set call a walk makes on a dependent D is a set call like any
\* other: it enters the before middleware with the value D had when it was
\* called, it has run the beforeUpdate hooks by the time it commits, its
\* commit raises the update count of D by one, appends the value D had to the
\* log of D when history is on (calls coming one after the other), and starts
\* a walk over the dependents of D while the walk that called it waits.
C32_RecommitIsFullCommit ==
    /\ [](\A k \in 1 .. Len(stack) :
            stack[k].op = "set" /\ stack[k].propagated =>
              /\ k > 1
              /\ stack[k - 1].pc = "awaitDependent"
              /\ stack[k - 1].cur = stack[k].h
              /\ stack[k].arg = stack[k].pre.value
              /\ stack[k].pc = "before" => stack[k].start = V(stack[k].arg)
              /\ stack[k].committed /\ Implemented(plugins, "beforeUpdate")
                   => stack[k].hooked)
    /\ [][CommitStep /\ Top.propagated =>
            LET n == Len(stack)
                h == Top.h
            IN  /\ heap'[h].updateCount = heap[h].updateCount + 1
                /\ options.enableHistory /\ Alone =>
                     /\ h[1] \in DOMAIN history'
                     /\ history'[h[1]] = Recent(Append(LogOf(h[1]), Top.pre.value))
                /\ stack'[n].pc = "notify"
                /\ stack'[n].queue = heap[h].dependents
                /\ stack'[n].visited = {}
                /\ stack'[n - 1] = stack[n - 1]]_vars

\* a walk waits for the recommit of a dependent other than its own reactive;
\* the recommit has committed the value the dependent had, appended it to
\* the log, and its own walk has called set on a dependent of the dependent
C32_Witness ==
    /\ Len(stack) > 2
    /\ stack[2].op = "set"
    /\ stack[2].propagated
    /\ stack[2].h[1] # stack[1].h[1]
    /\ stack[2].committed
    /\ stack[2].appended
    /\ stack[2].new = stack[2].prior
    /\ stack[2].pc = "awaitDependent"

\* C33: when a create call has rejected, getReactive returns for every id
\* what it returned when create was called.
C33_RejectedCreateRegistersNothing ==
    Ended("create", "rejected") => reactives = last.frame.pre

\* C34: initialize is called on every plugin of the constructor's list, in
\* list order; the plugins in the pipelines are, for each name in the order
\* of its first occurrence in the list, the last plugin of the list under
\* that name; and every hook called in a pipeline is the hook of that plugin.
Firsts(list) ==
    {k \in 1 .. Len(list) : \A j \in 1 .. k - 1 : list[j].name # list[k].name}

LastUnder(list, name) ==
    list[CHOOSE k \in 1 .. Len(list) :
           /\ list[k].name = name
           /\ \A j \in k + 1 .. Len(list) : list[j].name # name]

\* the i-th name of the list, counting each name at its first occurrence
NameAt(list, i) ==
    list[CHOOSE k \in Firsts(list) :
           Cardinality({j \in Firsts(list) : j <= k}) = i].name

C34_PluginsKeyedByName ==
    /\ \E config \in SystemConfigs \cup {Shadowed} : initialized = config.plugins
    /\ Len(plugins) = Cardinality(Firsts(initialized))
    /\ \A i \in 1 .. Len(plugins) :
         plugins[i] = LastUnder(initialized, NameAt(initialized, i))
    /\ \A k \in 1 .. Len(stack) :
         stack[k].pc \in HookNames =>
           \A n \in 1 .. Len(stack[k].trace) :
             LET e == stack[k].trace[n]
             IN  e.out = Returns(LastUnder(initialized, NameAt(initialized, e.by))
                                   [stack[k].pc], e.in)

\* two plugins share a name; in a beforeCreate pipeline the hook of the
\* later one ran first and changed the config, the next plugin's ran after it
C34_Witness ==
    /\ Len(plugins) < Len(initialized)
    /\ Running("create", "beforeCreate")
    /\ Len(Top.trace) = 2
    /\ Top.trace[1].out # Top.start
    /\ Top.trace[1].out # Returns(initialized[1].beforeCreate, Top.start)

\* the calls the latest setter call of the alternative made, by name
Named(name) == SelectSeq(settledCall.events, LAMBDA e : e[1] = name)
Names == [i \in 1 .. Len(settledCall.events) |-> settledCall.events[i][1]]
Calls35(on) == IF on = "none" THEN <<>> ELSE <<"onSuccess">>

\* C35: a setter call of the alternative resolves.  When validate returned
\* false or threw, the call left the signal's value as it was, notified no
\* subscriber, did not call onSuccess and called onError once.  When validate
\* passed, the call wrote the signal, then called onSuccess, then called every
\* subscriber of the key once, in the set's order, with the transformed value.
C35_SetterAbsorbsAndGuards ==
    settledCall.outcome # "none" =>
        /\ settledCall.outcome = "resolved"
        /\ settledCall.validated = "failed" =>
             /\ settledCall.value = settledCall.before
             /\ Named("notify") = <<>>
             /\ Named("onSuccess") = <<>>
             /\ Named("setValue") = <<>>
             /\ conf.onError # "none" => Len(Named("onError")) = 1
        /\ settledCall.validated = "passed" =>
             /\ SelectSeq(Names, LAMBDA n : n # "onError") =
                  <<"setValue">> \o Calls35(conf.onSuccess)
                    \o [i \in 1 .. Len(settledCall.subs) |-> "notify"]
             /\ Named("notify") =
                  [i \in 1 .. Len(settledCall.subs) |->
                     <<"notify", settledCall.subs[i], settledCall.transformedValue>>]
             /\ conf.setter = "none" => settledCall.value = settledCall.transformedValue

====
